---- MODULE Spec2Model ----
(***************************************************************************)
(* Model of the Ai-Imam front end: the App request lifecycle (App.tsx) and *)
(* the speech controller of FatwaDisplay (handleReadAloud,                 *)
(* handleStopSpeech, the utterance callbacks and the unmount cleanup)      *)
(* driving the browser's speechSynthesis queue.                            *)
(*                                                                         *)
(* The speech engine is the environment.  It keeps a FIFO queue of         *)
(* utterances; `speaking` is true only once the front utterance has begun  *)
(* (an utterance that was submitted and has not begun is pending).         *)
(* cancel() empties the queue at once, the error event of each removed     *)
(* utterance is delivered later, and a boundary event that was already on  *)
(* its way when cancel() ran may still be delivered before it.             *)
(***************************************************************************)
EXTENDS Naturals, Integers, Sequences, FiniteSets, TLC

\* -------------------------------------------------------------------------
\* Bounds of the model
\* -------------------------------------------------------------------------
MaxUtterances == 2
MaxChar == 1
MaxFatwas == 2
MaxLen == 4
MaxWordLen == 7

\* -------------------------------------------------------------------------
\* Values
\* -------------------------------------------------------------------------
Lang == {"english", "arabic"}

\* highlight === null; the renderer receives charIndex -1 for it
None == [lang |-> "none", charIndex |-> -1]

NoError == "null"
EmptyPromptError == "Please enter a question."
RequestErrors == {"An unknown error occurred."}

\* reasons the engine gives for a failure that no cancel() caused
PlaybackErrors == {"synthesis-failed"}

\* the prompts the user can type: empty, blank, a question
Prompts == {<< >>, <<" ">>, <<"q">>}

\* the characters of the texts of a fatwa: a letter, the whitespace, the
\* markers of a list item, a blockquote and a header, and the plus sign
Chars == {"a", " ", "\n", "-", ">", "#", "+"}

VARIABLES
    prompt,         \* App: text of the controlled textarea
    currentPrompt,  \* App: prompt of the request last submitted
    isLoading,      \* App: a generateFatwa request is in flight
    fatwa,          \* App: 0 for null, else the number of the fatwa shown
    error,          \* App: the error message shown, NoError for null
    generation,     \* number of fatwas received so far
    highlight,      \* FatwaDisplay: Highlight State of the mounted component
    utts,           \* every utterance handed to speechSynthesis.speak, in order
    errorLog,       \* number of console.error calls made by utterance.onerror
    last,           \* the operation that produced this state
    response,       \* what the API gave the generateFatwa call
    outcome,        \* the promise of the generateFatwa call
    fatwaText,      \* App: englishFatwa and arabicFatwa of the fatwa shown
    hasSegmenter,   \* window.Intl?.Segmenter is there
    panels,         \* what MarkdownRenderer computed for the panel of each language
    word,           \* a Word element: its children and the markup it renders
    segmented,      \* a call of segmentText: its text, offset and segments
    playbackRate,   \* FatwaDisplay: playbackRate, in thousandths
    voices,         \* the languages speechSynthesis.getVoices() has a voice for
    selectedVoice   \* FatwaDisplay: a voice is selected for the language

vars == <<prompt, currentPrompt, isLoading, fatwa, error, generation,
          highlight, utts, errorLog, last,
          response, outcome, fatwaText, hasSegmenter, panels,
          word, segmented, playbackRate, voices, selectedVoice>>

appVars == <<prompt, currentPrompt, isLoading, fatwa, error, generation>>

textVars == <<response, outcome, fatwaText, hasSegmenter, panels, word, segmented>>

playbackVars == <<playbackRate, voices, selectedVoice>>

Step(op, lang, id, reason, c) ==
    [op |-> op, lang |-> lang, id |-> id, reason |-> reason, charIndex |-> c]

\* -------------------------------------------------------------------------
\* generateFatwa (services/geminiService.ts)
\* -------------------------------------------------------------------------
\* a JSON value of a field of the parsed response
Str(t) == [type |-> "string", value |-> t]
Undefined == [type |-> "undefined", value |-> << >>]
Number(n) == [type |-> "number", value |-> <<n>>]

\* JavaScript truthiness of a field: "" , 0 and undefined are falsy
Truthy(f) ==
    \/ f.type = "string" /\ f.value # << >>
    \/ f.type = "number" /\ f.value # <<"0">>

\* what ai.models.generateContent gives generateFatwa: `api` tells whether the
\* key is configured and the call returned, `finishReason` is the first
\* candidate's, `text` is the shape of response.text
ApiResponse(api, finishReason, text, english, arabic) ==
    [api |-> api, finishReason |-> finishReason, text |-> text,
     englishFatwa |-> english, arabicFatwa |-> arabic]

NoResponse == ApiResponse("none", "STOP", "empty", Undefined, Undefined)

Pending == [state |-> "pending", message |-> "",
            englishFatwa |-> Undefined, arabicFatwa |-> Undefined]

Rejected(message) ==
    [state |-> "rejected", message |-> message,
     englishFatwa |-> Undefined, arabicFatwa |-> Undefined]

Resolved(r) ==
    [state |-> "resolved", message |-> "",
     englishFatwa |-> r.englishFatwa, arabicFatwa |-> r.arabicFatwa]

generateFatwa(r) ==
    IF r.api = "nokey"
    THEN Rejected("API key is missing. Please ensure it is configured correctly.")
    ELSE IF r.api = "error"
    THEN Rejected("An unknown error occurred. Please try again later.")
    ELSE IF r.finishReason = "SAFETY"
    THEN Rejected("The response was blocked due to safety concerns. Please modify your question.")
    ELSE IF r.finishReason = "RECITATION"
    THEN Rejected("The response was blocked due to a data recitation policy. Please try a different question.")
    ELSE IF r.finishReason \notin {"STOP", "MAX_TOKENS"}
    THEN Rejected("The model stopped generating for an unexpected reason.")
    ELSE IF r.text = "empty"
    THEN Rejected("The AI returned an empty response. Please try rephrasing your question.")
    ELSE IF r.text = "unparsable"
    THEN Rejected("The AI returned a response that could not be understood. Please try again.")
    ELSE IF r.text = "null"
    THEN Rejected("A network error occurred. Please check your internet connection and try again.")
    ELSE IF Truthy(r.englishFatwa) /\ Truthy(r.arabicFatwa)
    THEN Resolved(r)
    ELSE Rejected("Invalid response format from the AI model. Please check the schema and prompt.")

\* -------------------------------------------------------------------------
\* MarkdownRenderer (FatwaDisplay.tsx)
\* -------------------------------------------------------------------------
\* \s
Whitespace == {" ", "\n"}

\* \d
Digits == {"0", "1", "2", "3", "4", "5", "6", "7", "8", "9"}

\* the characters Intl.Segmenter joins into word-like segments
Letters == {"a"}

\* the dropped blocks: !part.trim()
isBlank(s) == \A k \in DOMAIN s : s[k] \in Whitespace

\* the number of consecutive characters of s from position i that are in C
RECURSIVE runLength(_, _, _)
runLength(s, i, C) ==
    IF i <= Len(s) /\ s[i] \in C THEN 1 + runLength(s, i + 1, C) ELSE 0

\* text.split(/(\n{2,})/) from position i, cur being the part that is open
RECURSIVE splitBlocks(_, _, _)
splitBlocks(s, i, cur) ==
    IF i > Len(s) THEN <<cur>>
    ELSE LET n == runLength(s, i, {"\n"})
         IN  IF n >= 2
             THEN <<cur, SubSeq(s, i, i + n - 1)>> \o splitBlocks(s, i + n, << >>)
             ELSE splitBlocks(s, i + 1, Append(cur, s[i]))

\* block.text.split('\n') from position i
RECURSIVE splitLines(_, _, _)
splitLines(s, i, cur) ==
    IF i > Len(s) THEN <<cur>>
    ELSE IF s[i] = "\n" THEN <<cur>> \o splitLines(s, i + 1, << >>)
    ELSE splitLines(s, i + 1, Append(cur, s[i]))

\* the tests on the start of a block
blockType(part) ==
    LET h == runLength(part, 1, {"#"})
        d == runLength(part, 1, Digits)
    IN  IF h >= 1 /\ h <= 6 /\ runLength(part, h + 1, Whitespace) >= 1
        THEN "header"
        ELSE IF runLength(part, 1, {">"}) >= 1 THEN "blockquote"
        ELSE IF runLength(part, 1, {"-", "*"}) >= 1 /\ runLength(part, 2, Whitespace) >= 1
        THEN "ul"
        ELSE IF d >= 1 /\ runLength(part, d + 1, {"."}) >= 1
                /\ runLength(part, d + 2, Whitespace) >= 1
        THEN "ol"
        ELSE "paragraph"

\* the length of line.match(prefixRegex)[0] for the block type, -1 for no match
prefixMatch(type, line) ==
    LET h == runLength(line, 1, {"#"})
        d == runLength(line, 1, Digits)
    IN  CASE type = "header" ->
                IF h >= 1 /\ h <= 6 /\ runLength(line, h + 1, Whitespace) >= 1
                THEN h + runLength(line, h + 1, Whitespace) ELSE -1
          [] type = "blockquote" ->
                IF runLength(line, 1, {">"}) >= 1
                THEN 1 + (IF runLength(line, 2, Whitespace) >= 1 THEN 1 ELSE 0)
                ELSE -1
          [] type = "ul" ->
                IF runLength(line, 1, {"-", "*"}) >= 1 /\ runLength(line, 2, Whitespace) >= 1
                THEN 1 + runLength(line, 2, Whitespace) ELSE -1
          [] type = "ol" ->
                IF d >= 1 /\ runLength(line, d + 1, {"."}) >= 1
                   /\ runLength(line, d + 2, Whitespace) >= 1
                THEN d + 1 + runLength(line, d + 2, Whitespace) ELSE -1
          [] OTHER -> -1

\* prefixLen / effectivePrefixLen of a line of a block
prefixLen(type, line) ==
    LET m == prefixMatch(type, line)
    IN  IF m >= 0 THEN m
        ELSE IF type = "ul" THEN 2
        ELSE IF type = "ol" THEN 3
        ELSE 0

\* parts.map(...) with the running cursor dropping the separators: the parts
\* at the odd indices of the code are the even positions here
RECURSIVE blocksFromIgnoringSeparators(_, _, _)
blocksFromIgnoringSeparators(parts, index, cursor) ==
    IF index > Len(parts) THEN << >>
    ELSE LET part == parts[index]
             rest == blocksFromIgnoringSeparators(parts, index + 1,
                        IF index % 2 = 0 THEN cursor ELSE cursor + Len(part))
         IN  IF index % 2 = 0 \/ isBlank(part) THEN rest
             ELSE <<[type |-> blockType(part), text |-> part, start |-> cursor]>> \o rest

\* parts.map(...).filter(Boolean) with the running cursor: the parts at the odd
\* indices of the code (the separators) are the even positions here
RECURSIVE blocksFrom(_, _, _)
blocksFrom(parts, index, cursor) ==
    IF index > Len(parts) THEN << >>
    ELSE LET part == parts[index]
             rest == blocksFrom(parts, index + 1, cursor + Len(part))
         IN  IF index % 2 = 0 \/ isBlank(part) THEN rest
             ELSE <<[type |-> blockType(part), text |-> part, start |-> cursor]>> \o rest

blocks(text) == blocksFrom(splitBlocks(text, 1, << >>), 1, 0)

\* a split that ends a part after every character
RECURSIVE splitEveryCharacter(_, _)
splitEveryCharacter(s, i) ==
    IF i > Len(s) THEN << >>
    ELSE <<SubSeq(s, i, i)>> \o splitEveryCharacter(s, i + 1)

\* text.split(/(\s+)/) without its empty parts, from position i
RECURSIVE splitWhitespace(_, _)
splitWhitespace(s, i) ==
    IF i > Len(s) THEN << >>
    ELSE LET n == IF s[i] \in Whitespace
                  THEN runLength(s, i, Whitespace)
                  ELSE runLength(s, i, Chars \ Whitespace)
         IN  <<SubSeq(s, i, i + n - 1)>> \o splitWhitespace(s, i + n)

\* the forEach of the fallback that forgets the whitespace it passed
RECURSIVE fallbackSegmentsSkippingSpace(_, _, _)
fallbackSegmentsSkippingSpace(parts, globalOffset, wordOffset) ==
    IF parts = << >> THEN << >>
    ELSE LET part == Head(parts)
         IN  <<[text |-> part, isWordLike |-> ~isBlank(part),
                startIndex |-> globalOffset + wordOffset,
                endIndex |-> globalOffset + wordOffset + Len(part)]>>
             \o fallbackSegmentsSkippingSpace(Tail(parts), globalOffset,
                    IF isBlank(part) THEN wordOffset ELSE wordOffset + Len(part))

\* the forEach of the fallback for browsers without Intl.Segmenter
RECURSIVE fallbackSegments(_, _, _)
fallbackSegments(parts, globalOffset, wordOffset) ==
    IF parts = << >> THEN << >>
    ELSE LET part == Head(parts)
         IN  <<[text |-> part, isWordLike |-> ~isBlank(part),
                startIndex |-> globalOffset + wordOffset,
                endIndex |-> globalOffset + wordOffset + Len(part)]>>
             \o fallbackSegments(Tail(parts), globalOffset, wordOffset + Len(part))

\* Intl.Segmenter with granularity 'word' (the word boundaries of UAX #29):
\* a run of letters or digits is one word-like segment, a run of spaces is
\* one segment, a newline and every other character stand alone
RECURSIVE segmenterSegments(_, _, _)
segmenterSegments(s, i, globalOffset) ==
    IF i > Len(s) THEN << >>
    ELSE LET n == IF s[i] \in Letters \cup Digits
                  THEN runLength(s, i, Letters \cup Digits)
                  ELSE IF s[i] = " " THEN runLength(s, i, {" "})
                  ELSE 1
         IN  <<[text |-> SubSeq(s, i, i + n - 1),
                isWordLike |-> s[i] \in Letters \cup Digits,
                startIndex |-> globalOffset + (i - 1),
                endIndex |-> globalOffset + (i - 1) + n]>>
             \o segmenterSegments(s, i + n, globalOffset)

\* segmentText with block-local indices
segmentTextBlockLocal(text, lang, globalOffset) ==
    IF hasSegmenter THEN segmenterSegments(text, 1, 0)
    ELSE fallbackSegments(splitWhitespace(text, 1), 0, 0)

segmentText(text, lang, globalOffset) ==
    IF hasSegmenter THEN segmenterSegments(text, 1, globalOffset)
    ELSE fallbackSegments(splitWhitespace(text, 1), globalOffset, 0)

\* lines.map(...) of a blockquote or list block whose cursor forgets the
\* newline between the lines
RECURSIVE linesFromNoNewline(_, _, _, _)
linesFromNoNewline(b, lines, lIdx, lineCursor) ==
    IF lIdx > Len(lines) THEN << >>
    ELSE <<[block |-> b, text |-> lines[lIdx], start |-> lineCursor]>>
         \o linesFromNoNewline(b, lines, lIdx + 1, lineCursor + Len(lines[lIdx]))

\* lines.map(...) of a blockquote or list block: the start of every line,
\* lineCursor += line.length + 1
RECURSIVE linesFrom(_, _, _, _)
linesFrom(b, lines, lIdx, lineCursor) ==
    IF lIdx > Len(lines) THEN << >>
    ELSE <<[block |-> b, text |-> lines[lIdx], start |-> lineCursor]>>
         \o linesFrom(b, lines, lIdx + 1, lineCursor + Len(lines[lIdx]) + 1)

\* the texts segmentText is called on, in order: every line of a blockquote or
\* list block, the whole text of a header or paragraph
RECURSIVE textLines(_, _)
textLines(bs, b) ==
    IF b > Len(bs) THEN << >>
    ELSE (IF bs[b].type \in {"blockquote", "ul", "ol"}
          THEN linesFrom(b, splitLines(bs[b].text, 1, << >>), 1, bs[b].start)
          ELSE <<[block |-> b, text |-> bs[b].text, start |-> bs[b].start]>>)
         \o textLines(bs, b + 1)

\* segments.map(...): a segment that ends inside the prefix is not rendered
RECURSIVE segmentsFrom(_, _, _, _)
segmentsFrom(bs, lines, l, lang) ==
    IF l > Len(lines) THEN << >>
    ELSE LET line == lines[l]
             skip == line.start + prefixLen(bs[line.block].type, line.text)
             segments == segmentText(line.text, lang, line.start)
         IN  [k \in DOMAIN segments |->
                 [text |-> segments[k].text,
                  isWordLike |-> segments[k].isWordLike,
                  startIndex |-> segments[k].startIndex,
                  endIndex |-> segments[k].endIndex,
                  line |-> l,
                  rendered |-> ~(segments[k].endIndex <= skip)]]
             \o segmentsFrom(bs, lines, l + 1, lang)

\* what MarkdownRenderer computes from its text: the blocks, the texts given
\* to segmentText and the segments, each marked with whether a Word is
\* rendered for it
MarkdownRenderer(text, lang) ==
    LET bs == blocks(text)
        lines == textLines(bs, 1)
    IN  [blocks |-> bs, lines |-> lines,
         segments |-> segmentsFrom(bs, lines, 1, lang)]

NoPanel == [blocks |-> << >>, lines |-> << >>, segments |-> << >>]

\* the highlightCharIndex both panels receive whatever the language
highlightCharIndexAnyPanel(language) == highlight.charIndex

\* highlightCharIndex={highlight?.lang === language ? highlight.charIndex : -1}
highlightCharIndex(language) ==
    IF highlight.lang = language THEN highlight.charIndex ELSE -1

\* isHighlighted of segment k of the panel of a language
isHighlighted(language, k) ==
    LET seg == panels[language].segments[k]
    IN  /\ seg.rendered
        /\ seg.isWordLike
        /\ highlightCharIndex(language) >= seg.startIndex
        /\ highlightCharIndex(language) < seg.endIndex

\* const textToRead = language === 'english' ? fatwa.englishFatwa : fatwa.arabicFatwa
textToRead(language) == fatwaText[language]

\* -------------------------------------------------------------------------
\* Word (FatwaDisplay.tsx): the inline formatter
\* -------------------------------------------------------------------------
\* the delimiter (\*{n}|_{n}) stands at position i of s
delimiterAt(s, i, n) ==
    /\ i >= 1
    /\ i + n - 1 <= Len(s)
    /\ s[i] \in {"*", "_"}
    /\ \A k \in 0..(n - 1) : s[i + k] = s[i]

\* the positions where \1 closes the span opened at i: (.*?) takes no newline
closings(s, i, n) ==
    {j \in (i + n)..Len(s) :
        /\ delimiterAt(s, j, n)
        /\ s[j] = s[i]
        /\ \A k \in (i + n)..(j - 1) : s[k] # "\n"}

\* the smallest element of a set of numbers
least(S) == CHOOSE j \in S : \A k \in S : j <= k

\* children.replace(/(\*{n}|_{n})(.*?)\1/g, open + '$2' + close) from
\* position i: the leftmost match, the nearest closing delimiter
RECURSIVE replaceSpans(_, _, _, _, _)
replaceSpans(s, i, n, open, close) ==
    IF i > Len(s) THEN << >>
    ELSE IF delimiterAt(s, i, n) /\ closings(s, i, n) # {}
    THEN LET j == least(closings(s, i, n))
         IN  <<open>> \o SubSeq(s, i + n, j - 1) \o <<close>>
             \o replaceSpans(s, j + n, n, open, close)
    ELSE <<s[i]>> \o replaceSpans(s, i + 1, n, open, close)

\* the content of a Word: the three replacements in the order of the code;
\* a tag is one element of the result
Word(children) ==
    replaceSpans(
        replaceSpans(
            replaceSpans(children, 1, 3, "<strong><em>", "</em></strong>"),
            1, 2, "<strong>", "</strong>"),
        1, 1, "<em>", "</em>")

NoWord == [rendered |-> FALSE, children |-> << >>, content |-> << >>]

NoSegments == [called |-> FALSE, text |-> << >>, globalOffset |-> 0, segments |-> << >>]

\* -------------------------------------------------------------------------
\* App
\* -------------------------------------------------------------------------
RECURSIVE trimStart(_)
trimStart(s) ==
    IF s # << >> /\ Head(s) = " " THEN trimStart(Tail(s)) ELSE s

RECURSIVE trimEnd(_)
trimEnd(s) ==
    IF s # << >> /\ s[Len(s)] = " " THEN trimEnd(SubSeq(s, 1, Len(s) - 1)) ELSE s

trim(s) == trimEnd(trimStart(s))

\* {fatwa && !isLoading && <FatwaDisplay .../>}
Mounted == fatwa # 0 /\ ~isLoading

\* -------------------------------------------------------------------------
\* speechSynthesis
\* -------------------------------------------------------------------------
Active(u) == {i \in DOMAIN u : u[i].status \in {"queued", "speaking"}}

\* window.speechSynthesis.speaking
speaking(u) == \E i \in DOMAIN u : u[i].status = "speaking"

\* window.speechSynthesis.cancel(): every utterance leaves the queue; its
\* error event is still to be delivered
cancel(u) ==
    [i \in DOMAIN u |->
        IF u[i].status \in {"queued", "speaking"}
        THEN [u[i] EXCEPT !.status = "cancelled"]
        ELSE u[i]]

\* the language tag of a channel
LangTag(language) == IF language = "english" THEN "en-US" ELSE "ar-SA"

\* utterance.lang: set in the branch taken when a voice is selected for the
\* language, else left at its default, the empty string
utteranceLang(language) ==
    IF selectedVoice[language] THEN LangTag(language) ELSE ""

\* playbackRate of a new FatwaDisplay, in thousandths
DefaultRate == 1000
MinRate == 500
MaxRate == 2000
RateStep == 250

\* populateVoiceList: nothing for an empty list, else a voice is selected
\* for every language that has none selected and has a voice in the list
populateVoiceList(selected, allVoices) ==
    IF allVoices = {} THEN selected
    ELSE [l \in Lang |-> selected[l] \/ l \in allVoices]

\* window.speechSynthesis.speak(utterance): appended to the queue
speak(u, language, owner) ==
    Append(u, [lang |-> language, owner |-> owner, status |-> "queued",
               begun |-> FALSE, charIndex |-> -1,
               tag |-> utteranceLang(language), rate |-> playbackRate])

\* the component whose setHighlight the callbacks of utterance i close over
Owned(i) == Mounted /\ utts[i].owner = fatwa

\* -------------------------------------------------------------------------
\* FatwaDisplay
\* -------------------------------------------------------------------------
\* const isSpeaking = highlight !== null
isSpeaking == highlight # None

\* the cleanup returned by the mount effect
cleanup(u) == IF speaking(u) THEN cancel(u) ELSE u

handleReadAloud(language) ==
    /\ Mounted
    /\ LET wasSpeaking == speaking(utts)
           cancelled == IF wasSpeaking THEN cancel(utts) ELSE utts
           returns == wasSpeaking /\ highlight.lang = language
       IN  /\ returns \/ Len(utts) < MaxUtterances
           /\ utts' = IF returns THEN cancelled
                      ELSE speak(cancelled, language, fatwa)
           /\ highlight' = IF wasSpeaking THEN None ELSE highlight
           /\ last' = Step("readAloud", language,
                           IF returns THEN 0 ELSE Len(utts) + 1, "", -1)
           /\ UNCHANGED <<textVars, playbackVars>>
    /\ UNCHANGED <<appVars, errorLog>>

handleStopSpeech ==
    /\ IF speaking(utts)
       THEN utts' = cancel(utts) /\ highlight' = None
       ELSE UNCHANGED <<utts, highlight>>
    /\ last' = Step("stop", "none", 0, "", -1)
    /\ UNCHANGED <<textVars, playbackVars>>
    /\ UNCHANGED <<appVars, errorLog>>

\* <button onClick={handleStopSpeech} disabled={!isSpeaking}>
StopPlayback ==
    /\ Mounted
    /\ isSpeaking
    /\ handleStopSpeech

\* the engine begins the utterance at the front of its queue
EngineStart ==
    /\ Active(utts) # {}
    /\ ~speaking(utts)
    /\ LET i == CHOOSE j \in Active(utts) : \A k \in Active(utts) : j <= k
       IN  /\ utts' = [utts EXCEPT ![i].status = "speaking", ![i].begun = TRUE]
           /\ last' = Step("start", utts[i].lang, i, "", -1)
           /\ UNCHANGED <<textVars, playbackVars>>
    /\ UNCHANGED <<appVars, highlight, errorLog>>

\* utterance.onboundary = (e) => setHighlight({ lang: language, charIndex })
onboundary(i, c) ==
    /\ \/ utts[i].status = "speaking"
       \/ utts[i].status = "cancelled" /\ utts[i].begun
    /\ c >= utts[i].charIndex
    /\ utts' = [utts EXCEPT ![i].charIndex = c]
    /\ highlight' = IF Owned(i)
                    THEN [lang |-> utts[i].lang, charIndex |-> c]
                    ELSE highlight
    /\ last' = Step("boundary", utts[i].lang, i, "", c)
    /\ UNCHANGED <<textVars, playbackVars>>
    /\ UNCHANGED <<appVars, errorLog>>

\* onend that leaves the highlight as the last boundary event set it
onendKeepsHighlight(i) ==
    /\ utts[i].status = "speaking"
    /\ utts' = [utts EXCEPT ![i].status = "finished"]
    /\ highlight' = highlight
    /\ last' = Step("end", utts[i].lang, i, "", -1)
    /\ UNCHANGED <<textVars, playbackVars>>
    /\ UNCHANGED <<appVars, errorLog>>

\* utterance.onend = () => setHighlight(null)
onend(i) ==
    /\ utts[i].status = "speaking"
    /\ utts' = [utts EXCEPT ![i].status = "finished"]
    /\ highlight' = IF Owned(i) THEN None ELSE highlight
    /\ last' = Step("end", utts[i].lang, i, "", -1)
    /\ UNCHANGED <<textVars, playbackVars>>
    /\ UNCHANGED <<appVars, errorLog>>

\* the reason the engine reports for utterance i
ReasonsOf(i) ==
    IF utts[i].status = "speaking" THEN PlaybackErrors
    ELSE IF utts[i].begun THEN {"interrupted"} ELSE {"canceled"}

\* onerror without the test of e.error: every error event is logged
onerrorLogsAll(i, reason) ==
    /\ utts[i].status \in {"speaking", "cancelled"}
    /\ reason \in ReasonsOf(i)
    /\ utts' = [utts EXCEPT ![i].status = "finished"]
    /\ errorLog' = errorLog + 1
    /\ highlight' = IF Owned(i) THEN None ELSE highlight
    /\ last' = Step("error", utts[i].lang, i, reason, -1)
    /\ UNCHANGED <<textVars, playbackVars>>
    /\ UNCHANGED appVars

\* onerror that returns after logging: a failure leaves the highlight in place
onerrorKeepsHighlight(i, reason) ==
    /\ utts[i].status \in {"speaking", "cancelled"}
    /\ reason \in ReasonsOf(i)
    /\ utts' = [utts EXCEPT ![i].status = "finished"]
    /\ errorLog' = IF reason # "interrupted" THEN errorLog + 1 ELSE errorLog
    /\ highlight' = IF Owned(i) /\ reason = "interrupted" THEN None ELSE highlight
    /\ last' = Step("error", utts[i].lang, i, reason, -1)
    /\ UNCHANGED <<textVars, playbackVars>>
    /\ UNCHANGED appVars

onerror(i, reason) ==
    /\ utts[i].status \in {"speaking", "cancelled"}
    /\ reason \in ReasonsOf(i)
    /\ utts' = [utts EXCEPT ![i].status = "finished"]
    /\ errorLog' = IF reason # "interrupted" THEN errorLog + 1 ELSE errorLog
    /\ highlight' = IF Owned(i) THEN None ELSE highlight
    /\ last' = Step("error", utts[i].lang, i, reason, -1)
    /\ UNCHANGED <<textVars, playbackVars>>
    /\ UNCHANGED appVars

\* -------------------------------------------------------------------------
\* App handlers
\* -------------------------------------------------------------------------
\* onPromptChange={setPrompt}; the textarea is disabled while loading
setPrompt(p) ==
    /\ ~isLoading
    /\ prompt' = p
    /\ last' = Step("setPrompt", "none", 0, "", -1)
    /\ UNCHANGED <<textVars, playbackVars>>
    /\ UNCHANGED <<currentPrompt, isLoading, fatwa, error, generation,
                   highlight, utts, errorLog>>

\* handleGenerateFatwa testing !prompt instead of !prompt.trim()
handleGenerateFatwaNoTrim ==
    /\ ~isLoading
    /\ IF prompt = << >>
       THEN /\ error' = EmptyPromptError
            /\ UNCHANGED <<currentPrompt, isLoading, fatwa, highlight, utts>>
       ELSE /\ generation < MaxFatwas
            /\ isLoading' = TRUE
            /\ error' = NoError
            /\ fatwa' = 0
            /\ currentPrompt' = prompt
            /\ utts' = IF Mounted THEN cleanup(utts) ELSE utts
            /\ highlight' = None
    /\ last' = Step("submit", "none", 0, "", -1)
    /\ UNCHANGED <<textVars, playbackVars>>
    /\ UNCHANGED <<prompt, generation, errorLog>>

\* handleGenerateFatwa without setError(null)
handleGenerateFatwaKeepsError ==
    /\ ~isLoading
    /\ IF trim(prompt) = << >>
       THEN /\ error' = EmptyPromptError
            /\ UNCHANGED <<currentPrompt, isLoading, fatwa, highlight, utts>>
       ELSE /\ generation < MaxFatwas
            /\ isLoading' = TRUE
            /\ error' = error
            /\ fatwa' = 0
            /\ currentPrompt' = prompt
            /\ utts' = IF Mounted THEN cleanup(utts) ELSE utts
            /\ highlight' = None
    /\ last' = Step("submit", "none", 0, "", -1)
    /\ UNCHANGED <<textVars, playbackVars>>
    /\ UNCHANGED <<prompt, generation, errorLog>>

\* the submit button is disabled while loading
handleGenerateFatwa ==
    /\ ~isLoading
    /\ IF trim(prompt) = << >>
       THEN /\ error' = EmptyPromptError
            /\ UNCHANGED <<currentPrompt, isLoading, fatwa, highlight, utts>>
       ELSE /\ generation < MaxFatwas
            /\ isLoading' = TRUE
            /\ error' = NoError
            /\ fatwa' = 0
            /\ currentPrompt' = prompt
            /\ utts' = IF Mounted THEN cleanup(utts) ELSE utts
            /\ highlight' = None
    /\ last' = Step("submit", "none", 0, "", -1)
    /\ UNCHANGED <<textVars, playbackVars>>
    /\ UNCHANGED <<prompt, generation, errorLog>>

\* const result = await generateFatwa(prompt); setFatwa(result)
GenerateResolve ==
    /\ isLoading
    /\ fatwa' = generation + 1
    /\ generation' = generation + 1
    /\ isLoading' = FALSE
    /\ highlight' = None
    /\ last' = Step("resolve", "none", 0, "", -1)
    /\ playbackRate' = DefaultRate
    /\ selectedVoice' = populateVoiceList([l \in Lang |-> FALSE], voices)
    /\ UNCHANGED <<textVars, voices>>
    /\ UNCHANGED <<prompt, currentPrompt, error, utts, errorLog>>

\* catch (err) { setError(...) } finally { setIsLoading(false) }
GenerateReject(msg) ==
    /\ isLoading
    /\ error' = msg
    /\ isLoading' = FALSE
    /\ last' = Step("reject", "none", 0, "", -1)
    /\ UNCHANGED <<textVars, playbackVars>>
    /\ UNCHANGED <<prompt, currentPrompt, fatwa, generation,
                   highlight, utts, errorLog>>

\* -------------------------------------------------------------------------
\* Specification
\* -------------------------------------------------------------------------
InitController ==
    /\ prompt = << >>
    /\ currentPrompt = << >>
    /\ isLoading = FALSE
    /\ fatwa = 0
    /\ error = NoError
    /\ generation = 0
    /\ highlight = None
    /\ utts = << >>
    /\ errorLog = 0
    /\ last = Step("init", "none", 0, "", -1)

\* the controller is modelled without the text of the fatwa
Init ==
    /\ InitController
    /\ hasSegmenter = TRUE
    /\ response = NoResponse
    /\ outcome = Pending
    /\ fatwaText = [l \in Lang |-> Undefined]
    /\ panels = [l \in Lang |-> NoPanel]
    /\ word = NoWord
    /\ segmented = NoSegments
    /\ playbackRate = DefaultRate
    /\ voices = {}
    /\ selectedVoice = [l \in Lang |-> FALSE]

ReadAloud == \E language \in Lang : handleReadAloud(language)

EngineBoundary == \E i \in DOMAIN utts : \E c \in 0..MaxChar : onboundary(i, c)

EngineEnd == \E i \in DOMAIN utts : onend(i)

EngineError ==
    \E i \in DOMAIN utts :
        \E reason \in PlaybackErrors \cup {"interrupted", "canceled"} :
            onerror(i, reason)

SetPrompt == \E p \in Prompts : setPrompt(p)

RequestFails == \E msg \in RequestErrors : GenerateReject(msg)

Next ==
    \/ SetPrompt
    \/ handleGenerateFatwa
    \/ GenerateResolve
    \/ RequestFails
    \/ ReadAloud
    \/ StopPlayback
    \/ EngineStart
    \/ EngineBoundary
    \/ EngineEnd
    \/ EngineError

Spec == Init /\ [][Next]_vars

\* the engine delivers the end or the error event of utterance i
FinalEvent(i) ==
    /\ i \in DOMAIN utts
    /\ \/ onend(i)
       \/ \E reason \in PlaybackErrors \cup {"interrupted", "canceled"} :
              onerror(i, reason)

\* the engine begins every utterance that reaches the front of its queue and
\* delivers an end or error event for every utterance it accepted
EngineFairness ==
    /\ WF_vars(EngineStart)
    /\ \A i \in 1..MaxUtterances : WF_vars(FinalEvent(i))

\* the user types a question
TypeQuestion == setPrompt(<<"q">>)

\* the behaviours in which the only prompt ever typed is a question
FairNext ==
    \/ TypeQuestion
    \/ handleGenerateFatwa
    \/ GenerateResolve
    \/ RequestFails
    \/ ReadAloud
    \/ StopPlayback
    \/ EngineStart
    \/ EngineBoundary
    \/ EngineEnd
    \/ EngineError

FairSpec == Init /\ [][FairNext]_vars /\ EngineFairness

\* -------------------------------------------------------------------------
\* The answer of the API and the rendering of the two panels
\* -------------------------------------------------------------------------
\* the texts a field of the answer can hold
Texts == UNION {[1..k -> Chars] : k \in 0..MaxLen}

\* the Arabic texts of the answers
ArabicTexts == {<<"a">>, <<"-", " ", "a">>}

\* longer texts: a list of two items, a list whose second line has no
\* marker, a blockquote of two lines, a paragraph before a list
ScenarioTexts ==
    {<<"-", " ", "a", "\n", "-", " ", "a">>,
     <<"-", " ", "a", "\n", "a", " ", "a">>,
     <<">", " ", "a", "\n", ">", "a">>,
     <<"a", " ", "a", "\n", "\n", "-", " ", "a">>}

EnglishValues ==
    {Undefined, Number("0"), Number("1")} \cup {Str(t) : t \in Texts \cup ScenarioTexts}

ArabicValues == {Undefined, Number("1"), Str(<< >>)} \cup {Str(t) : t \in ArabicTexts}

\* what generateContent can give: no key, a failed call, a blocked or
\* truncated candidate, an empty or unparsable text, the JSON null, an object
Responses ==
    {ApiResponse("nokey", "STOP", "empty", Undefined, Undefined),
     ApiResponse("error", "STOP", "empty", Undefined, Undefined),
     ApiResponse("ok", "SAFETY", "empty", Undefined, Undefined),
     ApiResponse("ok", "RECITATION", "empty", Undefined, Undefined),
     ApiResponse("ok", "OTHER", "empty", Undefined, Undefined),
     ApiResponse("ok", "STOP", "empty", Undefined, Undefined),
     ApiResponse("ok", "MAX_TOKENS", "unparsable", Undefined, Undefined),
     ApiResponse("ok", "STOP", "null", Undefined, Undefined)}
    \cup {ApiResponse("ok", "STOP", "object", e, a) :
            e \in EnglishValues, a \in ArabicValues}

\* a panel of FatwaDisplay: text.split throws for a text that is no string
renderPanel(f, language) ==
    IF f.type = "string" THEN MarkdownRenderer(f.value, language) ELSE NoPanel

\* const result = await generateFatwa(prompt); setFatwa(result), and the
\* render of FatwaDisplay that follows; a rejection leaves fatwa null
GenerateSettles ==
    /\ outcome.state = "pending"
    /\ \E r \in Responses :
        LET result == generateFatwa(r)
            shown == IF result.state = "resolved"
                     THEN [english |-> result.englishFatwa,
                           arabic |-> result.arabicFatwa]
                     ELSE fatwaText
        IN  /\ response' = r
            /\ outcome' = result
            /\ fatwaText' = shown
            /\ panels' = IF result.state = "resolved"
                         THEN [l \in Lang |-> renderPanel(shown[l], l)]
                         ELSE panels
            /\ UNCHANGED <<hasSegmenter, word, segmented, playbackVars,
                           appVars, highlight, utts, errorLog, last>>

\* utterance.onboundary of the utterance that reads a panel's text:
\* setHighlight({ lang: language, charIndex: event.charIndex })
BoundaryEvent ==
    \E language \in Lang :
        /\ outcome.state = "resolved"
        /\ textToRead(language).type = "string"
        /\ \E c \in 0..(Len(textToRead(language).value) - 1) :
               highlight' = [lang |-> language, charIndex |-> c]
        /\ UNCHANGED <<textVars, playbackVars, appVars, utts, errorLog, last>>

\* utterance.onend: setHighlight(null)
SpeechEnds ==
    /\ highlight # None
    /\ highlight' = None
    /\ UNCHANGED <<textVars, playbackVars, appVars, utts, errorLog, last>>

InitRender ==
    /\ InitController
    /\ hasSegmenter \in BOOLEAN
    /\ response = NoResponse
    /\ outcome = Pending
    /\ fatwaText = [l \in Lang |-> Undefined]
    /\ panels = [l \in Lang |-> NoPanel]
    /\ word = NoWord
    /\ segmented = NoSegments
    /\ playbackRate = DefaultRate
    /\ voices = {}
    /\ selectedVoice = [l \in Lang |-> FALSE]

NextRender ==
    \/ GenerateSettles
    \/ BoundaryEvent
    \/ SpeechEnds

\* one request answered by the API, then the boundary events of reading the
\* answer aloud
RenderSpec == InitRender /\ [][NextRender]_vars

\* -------------------------------------------------------------------------
\* Word and segmentText applied to the strings of a bounded set
\* -------------------------------------------------------------------------
\* the characters of the children of a Word
WordChars == {"a", "*", "_"}

WordTexts == UNION {[1..k -> WordChars] : k \in 0..MaxWordLen}

\* <Word>{seg.text}</Word>
RenderWord ==
    /\ ~word.rendered
    /\ ~segmented.called
    /\ \E children \in WordTexts :
           word' = [rendered |-> TRUE, children |-> children,
                    content |-> Word(children)]
    /\ UNCHANGED <<response, outcome, fatwaText, hasSegmenter, panels, segmented,
                   playbackVars, appVars, highlight, utts, errorLog, last>>

\* segmentText(text, lang, globalOffset)
CallSegmentText ==
    /\ ~word.rendered
    /\ ~segmented.called
    /\ \E text \in Texts : \E globalOffset \in 0..1 :
           segmented' = [called |-> TRUE, text |-> text,
                         globalOffset |-> globalOffset,
                         segments |-> segmentText(text, "en", globalOffset)]
    /\ UNCHANGED <<response, outcome, fatwaText, hasSegmenter, panels, word,
                   playbackVars, appVars, highlight, utts, errorLog, last>>

NextWord ==
    \/ RenderWord
    \/ CallSegmentText

\* one call of Word or of segmentText, with or without Intl.Segmenter
WordSpec == InitRender /\ [][NextWord]_vars

\* -------------------------------------------------------------------------
\* The playback controls
\* -------------------------------------------------------------------------
\* newRate.toFixed(2), in thousandths
toFixed2(rate) == ((rate + 5) \div 10) * 10

\* the speed buttons with disabled={isSpeaking} dropped
adjustRateWhileSpeaking(amount) ==
    /\ Mounted
    /\ IF amount < 0 THEN ~(playbackRate <= MinRate) ELSE ~(playbackRate >= MaxRate)
    /\ LET newRate == IF playbackRate + amount > MaxRate THEN MaxRate
                      ELSE IF playbackRate + amount < MinRate THEN MinRate
                      ELSE playbackRate + amount
       IN  playbackRate' = toFixed2(newRate)
    /\ last' = Step("adjustRate", "none", 0, "", -1)
    /\ UNCHANGED <<textVars, voices, selectedVoice, appVars, highlight, utts, errorLog>>

\* a speed button, disabled={isSpeaking || playbackRate <= 0.5} and
\* disabled={isSpeaking || playbackRate >= 2}, and adjustRate:
\* Math.max(0.5, Math.min(2, prev + amount))
adjustRate(amount) ==
    /\ Mounted
    /\ ~isSpeaking
    /\ IF amount < 0 THEN ~(playbackRate <= MinRate) ELSE ~(playbackRate >= MaxRate)
    /\ LET newRate == IF playbackRate + amount > MaxRate THEN MaxRate
                      ELSE IF playbackRate + amount < MinRate THEN MinRate
                      ELSE playbackRate + amount
       IN  playbackRate' = toFixed2(newRate)
    /\ last' = Step("adjustRate", "none", 0, "", -1)
    /\ UNCHANGED <<textVars, voices, selectedVoice, appVars, highlight, utts, errorLog>>

SlowDown == adjustRate(0 - RateStep)

SpeedUp == adjustRate(RateStep)

\* the engine's list of voices changes; speechSynthesis.onvoiceschanged is
\* populateVoiceList while a FatwaDisplay is mounted
VoicesChanged ==
    \E allVoices \in SUBSET Lang :
        /\ allVoices # voices
        /\ voices' = allVoices
        /\ selectedVoice' = IF Mounted
                            THEN populateVoiceList(selectedVoice, allVoices)
                            ELSE selectedVoice
        /\ last' = Step("voiceschanged", "none", 0, "", -1)
        /\ UNCHANGED <<textVars, playbackRate, appVars, highlight, utts, errorLog>>

NextPlayback ==
    \/ TypeQuestion
    \/ handleGenerateFatwa
    \/ GenerateResolve
    \/ ReadAloud
    \/ EngineStart
    \/ EngineBoundary
    \/ EngineEnd
    \/ SlowDown
    \/ SpeedUp

\* the controller with its speed buttons
PlaybackSpec == Init /\ [][NextPlayback]_vars

\* the voices may be there when the page loads
InitVoices ==
    /\ InitController
    /\ hasSegmenter = TRUE
    /\ response = NoResponse
    /\ outcome = Pending
    /\ fatwaText = [l \in Lang |-> Undefined]
    /\ panels = [l \in Lang |-> NoPanel]
    /\ word = NoWord
    /\ segmented = NoSegments
    /\ playbackRate = DefaultRate
    /\ voices \in SUBSET Lang
    /\ selectedVoice = [l \in Lang |-> FALSE]

NextVoices ==
    \/ TypeQuestion
    \/ handleGenerateFatwa
    \/ GenerateResolve
    \/ ReadAloud
    \/ EngineStart
    \/ EngineBoundary
    \/ EngineEnd
    \/ VoicesChanged

\* the controller with the voices of the engine
VoiceSpec == InitVoices /\ [][NextVoices]_vars

TypeOK ==
    /\ prompt \in Prompts
    /\ isLoading \in BOOLEAN
    /\ fatwa \in 0..MaxFatwas
    /\ generation \in 0..MaxFatwas
    /\ highlight.lang \in Lang \cup {"none"}
    /\ Len(utts) <= MaxUtterances
    /\ errorLog \in 0..MaxUtterances

\* -------------------------------------------------------------------------
\* Properties of the speech controller
\* -------------------------------------------------------------------------
\* the utterances of the mounted component that are in the engine's queue
ActiveOwn == {i \in Active(utts) : Owned(i)}

\* C1: at most one channel is Speaking: whenever the panel shows a channel
\* as speaking, the utterance the engine is speaking is of that channel.
SingleActiveChannel ==
    \A i \in DOMAIN utts :
        (utts[i].status = "speaking" /\ highlight # None)
            => highlight.lang = utts[i].lang

\* C2: the engine never holds more than one utterance (speaking or queued)
\* submitted by handleReadAloud.
SingleActiveUtterance == Cardinality(Active(utts)) <= 1

\* C3: readAloud(channel) while an utterance of that channel is active
\* (queued or speaking, with or without a boundary event so far) cancels it,
\* leaves the Highlight State None and starts no new utterance.
ToggleOff ==
    [][\A language \in Lang :
          (/\ last'.op = "readAloud"
           /\ last'.lang = language
           /\ \E i \in ActiveOwn : utts[i].lang = language)
          => (/\ Active(utts') = {}
              /\ highlight' = None
              /\ Len(utts') = Len(utts))]_vars

\* C4: readAloud(B) while an utterance of the other channel A is active
\* cancels A's utterance and submits B's, and while B's utterance is the
\* newest and active the Highlight State channel is B or None, never A.
ChannelSwitch ==
    /\ [][\A B \in Lang :
            (/\ last'.op = "readAloud"
             /\ last'.lang = B
             /\ \E i \in ActiveOwn : utts[i].lang # B)
            => (/\ \A i \in Active(utts) : utts'[i].status = "cancelled"
                /\ Len(utts') = Len(utts) + 1
                /\ utts'[Len(utts')].lang = B)]_vars
    /\ [](\A n \in DOMAIN utts :
            (/\ n = Len(utts)
             /\ n \in ActiveOwn
             /\ \E j \in 1..(n - 1) :
                    /\ utts[j].owner = utts[n].owner
                    /\ utts[j].lang # utts[n].lang
                    /\ utts[j].status # "finished")
            => highlight.lang \in {utts[n].lang, "none"})

\* C5: a boundary event of an utterance that was already cancelled leaves
\* the Highlight State (channel and activeCharIndex) unchanged.
StaleBoundaryIgnored ==
    [][(/\ last'.op = "boundary"
        /\ utts[last'.id].status = "cancelled")
       => highlight' = highlight]_vars

\* C6: the end or error event of a cancelled utterance U1, delivered while a
\* newer utterance U2 is speaking and the Highlight State is the one U2's
\* last boundary event set, leaves the Highlight State unchanged.
StaleEndIgnored ==
    [][(/\ last'.op \in {"end", "error"}
        /\ utts[last'.id].status = "cancelled"
        /\ \E j \in Active(utts) :
              /\ j > last'.id
              /\ utts[j].status = "speaking"
              /\ utts[j].charIndex >= 0
              /\ highlight = [lang |-> utts[j].lang,
                              charIndex |-> utts[j].charIndex])
       => highlight' = highlight]_vars

\* C7: the error event with reason "interrupted" that follows a cancel logs
\* no error, shows no notice, and the Highlight State of the component that
\* made the utterance is None afterwards.
InterruptedIsSilent ==
    [][(/\ last'.op = "error"
        /\ last'.reason = "interrupted"
        /\ utts[last'.id].status = "cancelled")
       => (/\ errorLog' = errorLog
           /\ error' = error
           /\ Owned(last'.id) => highlight' = None)]_vars

\* C7 witness: the interrupted error of a cancelled utterance has been
\* delivered to the mounted component and nothing was logged.
InterruptedDelivered ==
    /\ last.op = "error"
    /\ last.reason = "interrupted"
    /\ Owned(last.id)
    /\ highlight = None
    /\ errorLog = 0
    /\ error = NoError

StopUnconditional ==
    /\ [](ActiveOwn # {} => isSpeaking)
    /\ [][last'.op = "stop" => (Active(utts') = {} /\ highlight' = None)]_vars

\* C10: when FatwaDisplay is unmounted, every utterance it submitted is out
\* of the engine: none of them is speaking or queued after the unmount.
TeardownCancels ==
    [][(Mounted /\ ~Mounted')
       => \A i \in DOMAIN utts :
             utts[i].owner = fatwa
                => utts'[i].status \notin {"queued", "speaking"}]_vars

\* C11: when a new request is submitted while a fatwa is displayed, no
\* utterance of the replaced fatwa stays in the engine (queued or speaking),
\* the next fatwa is displayed with Highlight State None, and no event of an
\* utterance of a previous fatwa changes the Highlight State afterwards.
FatwaReplacementResets ==
    /\ [](\A i \in Active(utts) : Owned(i))
    /\ [][last'.op = "resolve" => highlight' = None]_vars
    /\ [][(/\ last'.op \in {"boundary", "end", "error"}
           /\ ~Owned(last'.id))
          => highlight' = highlight]_vars

\* C12: from the readAloud that submits an utterance on, while the utterance
\* is in the engine (queued or speaking), the Highlight State names its
\* channel.
HighlightFromActivation ==
    \A i \in ActiveOwn : highlight.lang = utts[i].lang

\* C18: submitting an empty or blank prompt sets the error to "Please enter
\* a question.", starts no request (isLoading stays false) and leaves fatwa
\* and currentPrompt unchanged.
EmptyPromptRejected ==
    [][(/\ last'.op = "submit"
        /\ \A k \in DOMAIN prompt : prompt[k] = " ")
       => (/\ error' = EmptyPromptError
           /\ ~isLoading'
           /\ isLoading' = isLoading
           /\ fatwa' = fatwa
           /\ currentPrompt' = currentPrompt)]_vars

\* C18 witness: a blank prompt was submitted while a fatwa was displayed;
\* the message is shown and the fatwa is still displayed.
BlankPromptSubmitted ==
    /\ last.op = "submit"
    /\ prompt = <<" ">>
    /\ error = EmptyPromptError
    /\ Mounted
    /\ currentPrompt = <<"q">>

\* the controller is Idle: no utterance in the engine and no highlight
Released == highlight = None /\ Active(utts) = {}

\* C13: with an engine that delivers an end or error event for every
\* utterance it accepted, every submitted utterance is eventually followed
\* by a state in which the controller is Idle, the Highlight State is None
\* and the engine holds no utterance.
GuaranteedRelease == (Active(utts) # {}) ~> Released

\* C13 witness: an utterance that was spoken and highlighted has ended and
\* the controller is Idle again.
ReleasedAfterEnd ==
    /\ last.op = "end"
    /\ utts[last.id].charIndex >= 0
    /\ Released

\* -------------------------------------------------------------------------
\* Properties of generateFatwa and of the renderer
\* -------------------------------------------------------------------------
\* the panel of a language shows the text of a fatwa
Shown(language) ==
    outcome.state = "resolved" /\ fatwaText[language].type = "string"

\* text.slice(a, b)
Slice(text, a, b) == SubSeq(text, a + 1, b)

\* the segments of a panel for which a Word is rendered, in order
Units(language) ==
    LET Rendered(seg) == seg.rendered
    IN  SelectSeq(panels[language].segments, Rendered)

\* the rendered units of a panel that contain index c
Containing(language, c) ==
    {k \in DOMAIN panels[language].segments :
        LET seg == panels[language].segments[k]
        IN  seg.rendered /\ seg.startIndex <= c /\ c < seg.endIndex}

\* c is in the prefix of a line of a block
InPrefix(language, c) ==
    \E l \in DOMAIN panels[language].lines :
        LET line == panels[language].lines[l]
            type == panels[language].blocks[line.block].type
        IN  /\ line.start <= c
            /\ c < line.start + prefixLen(type, line.text)
            /\ c < line.start + Len(line.text)

\* c is in a run of two or more newlines
InSeparator(text, c) ==
    /\ text[c + 1] = "\n"
    /\ \/ c >= 1 /\ text[c] = "\n"
       \/ c + 2 <= Len(text) /\ text[c + 2] = "\n"

\* c is a line break inside a list or blockquote block
InLineBreak(language, c) ==
    /\ fatwaText[language].value[c + 1] = "\n"
    /\ \E b \in DOMAIN panels[language].blocks :
           LET block == panels[language].blocks[b]
           IN  /\ block.type \in {"blockquote", "ul", "ol"}
               /\ block.start <= c
               /\ c < block.start + Len(block.text)

\* c is in a stretch between separators that holds only whitespace
InBlankBlock(text, c) ==
    /\ ~InSeparator(text, c)
    /\ \A k \in 0..(Len(text) - 1) :
           (\A j \in 0..(Len(text) - 1) :
                ((k <= j /\ j <= c) \/ (c <= j /\ j <= k)) => ~InSeparator(text, j))
           => text[k + 1] \in Whitespace

\* C20: every block's start is the index in the text handed to the speech
\* engine of the block's first character: the text from start to
\* start + length(block text) is the block text; blocks are in source order,
\* each starting at or after the end of the one before.
BlockOffsetsAbsolute ==
    \A language \in Lang :
        Shown(language) =>
            LET bs == panels[language].blocks
                text == textToRead(language).value
            IN  /\ \A i \in DOMAIN bs :
                       /\ bs[i].start >= 0
                       /\ bs[i].start + Len(bs[i].text) <= Len(text)
                       /\ Slice(text, bs[i].start, bs[i].start + Len(bs[i].text))
                              = bs[i].text
                /\ \A i \in 1..(Len(bs) - 1) :
                       bs[i + 1].start >= bs[i].start + Len(bs[i].text)

\* C20 witness: a text that begins with a separator of three newlines is
\* rendered and its block starts at index 3.
BlockAfterLongSeparator ==
    \E language \in Lang :
        /\ Shown(language)
        /\ Len(fatwaText[language].value) > 3
        /\ Slice(fatwaText[language].value, 0, 3) = <<"\n", "\n", "\n">>
        /\ \E i \in DOMAIN panels[language].blocks :
               panels[language].blocks[i].start = 3

\* every segment's text is the text between its indices
SegmentsExact(language) ==
    \A k \in DOMAIN panels[language].segments :
        LET seg == panels[language].segments[k]
        IN  /\ seg.endIndex - seg.startIndex = Len(seg.text)
            /\ seg.startIndex >= 0
            /\ seg.endIndex <= Len(fatwaText[language].value)
            /\ Slice(fatwaText[language].value, seg.startIndex, seg.endIndex) = seg.text

\* the segments segs run from index a to index b without a hole or an overlap
Contiguous(segs, a, b) ==
    /\ segs = << >> => a = b
    /\ segs # << >> => segs[1].startIndex = a /\ segs[Len(segs)].endIndex = b
    /\ \A k \in 1..(Len(segs) - 1) : segs[k + 1].startIndex = segs[k].endIndex

RECURSIVE ConcatTexts(_)
ConcatTexts(segs) ==
    IF segs = << >> THEN << >> ELSE Head(segs).text \o ConcatTexts(Tail(segs))

\* C19: every segment's length and text agree with its indices, and the
\* segments of every block, multi-line list and blockquote blocks included,
\* are contiguous and concatenate to the block's source substring.
SegmentsCoverBlock ==
    \A language \in Lang :
        Shown(language) =>
            /\ SegmentsExact(language)
            /\ \A b \in DOMAIN panels[language].blocks :
                   LET block == panels[language].blocks[b]
                       OfBlock(seg) == panels[language].lines[seg.line].block = b
                       segs == SelectSeq(panels[language].segments, OfBlock)
                   IN  /\ Contiguous(segs, block.start, block.start + Len(block.text))
                       /\ ConcatTexts(segs) = block.text

\* C19 (amended): every segment's length and text agree with its indices, and
\* the segments of every call of segmentText (a whole paragraph or header
\* block, one line of a list or blockquote block) are contiguous and
\* concatenate to that block's or line's source substring.
SegmentsCoverLine ==
    \A language \in Lang :
        Shown(language) =>
            /\ SegmentsExact(language)
            /\ \A l \in DOMAIN panels[language].lines :
                   LET line == panels[language].lines[l]
                       OfLine(seg) == seg.line = l
                       segs == SelectSeq(panels[language].segments, OfLine)
                   IN  /\ Contiguous(segs, line.start, line.start + Len(line.text))
                       /\ ConcatTexts(segs) = line.text
                       /\ Slice(fatwaText[language].value, line.start,
                                line.start + Len(line.text)) = line.text

\* C19 witness: a list or blockquote block of two lines whose second line has
\* a segment.
SecondLineSegmented ==
    \E language \in Lang :
        /\ Shown(language)
        /\ \E k \in DOMAIN panels[language].segments :
               LET l == panels[language].segments[k].line
               IN  /\ l > 1
                   /\ panels[language].lines[l].block = panels[language].lines[l - 1].block

\* C14: every index of the text is in exactly one rendered unit, or in no
\* unit and in a suppressed prefix, a block separator or a line break of a
\* list or blockquote block; never in two units.
OffsetCoverage ==
    \A language \in Lang :
        Shown(language) =>
            \A c \in 0..(Len(fatwaText[language].value) - 1) :
                LET n == Cardinality(Containing(language, c))
                IN  \/ n = 1
                    \/ /\ n = 0
                       /\ \/ InPrefix(language, c)
                          \/ InSeparator(fatwaText[language].value, c)
                          \/ InLineBreak(language, c)

\* C14 (amended): every index of the text is in exactly one rendered unit, or
\* in no unit and in a suppressed prefix, a block separator, a line break of a
\* list or blockquote block or a whitespace-only block; never in two units.
OffsetCoverageOrBlank ==
    \A language \in Lang :
        Shown(language) =>
            \A c \in 0..(Len(fatwaText[language].value) - 1) :
                LET n == Cardinality(Containing(language, c))
                IN  \/ n = 1
                    \/ /\ n = 0
                       /\ \/ InPrefix(language, c)
                          \/ InSeparator(fatwaText[language].value, c)
                          \/ InLineBreak(language, c)
                          \/ InBlankBlock(fatwaText[language].value, c)

\* C14 witness: a text with an index in a whitespace-only block and an index
\* in a rendered unit.
BlankBlockBesideUnit ==
    \E language \in Lang :
        /\ Shown(language)
        /\ \E c, d \in 0..(Len(fatwaText[language].value) - 1) :
               /\ InBlankBlock(fatwaText[language].value, c)
               /\ Containing(language, c) = {}
               /\ Containing(language, d) # {}

\* the characters of text at the indices of G from a up to b
RECURSIVE Gaps(_, _, _, _)
Gaps(text, a, b, G) ==
    IF a >= b THEN << >>
    ELSE (IF a \in G THEN <<text[a + 1]>> ELSE << >>) \o Gaps(text, a + 1, b, G)

\* the texts of the units in order, the characters at the indices of G put
\* back before, between and after them
RECURSIVE Rebuild(_, _, _, _)
Rebuild(text, units, pos, G) ==
    IF units = << >> THEN Gaps(text, pos, Len(text), G)
    ELSE Gaps(text, pos, Head(units).startIndex, G)
         \o Head(units).text
         \o Rebuild(text, Tail(units), Head(units).endIndex, G)

\* the indices in a suppressed prefix
SuppressedPrefix(language) ==
    {c \in 0..(Len(fatwaText[language].value) - 1) :
        Containing(language, c) = {} /\ InPrefix(language, c)}

\* the indices in any suppressed region
Suppressed(language) ==
    {c \in 0..(Len(fatwaText[language].value) - 1) :
        /\ Containing(language, c) = {}
        /\ \/ InPrefix(language, c)
           \/ InSeparator(fatwaText[language].value, c)
           \/ InLineBreak(language, c)
           \/ InBlankBlock(fatwaText[language].value, c)}

\* C16: with the whitespace fallback, the texts of the rendered units in
\* order, the suppressed prefix regions put back, are the source text.
Reconstruction ==
    \A language \in Lang :
        (Shown(language) /\ ~hasSegmenter) =>
            Rebuild(fatwaText[language].value, Units(language), 0,
                    SuppressedPrefix(language)) = fatwaText[language].value

\* C16 (amended): with the whitespace fallback, the rendered units are in
\* source order and their texts, with the suppressed prefixes, the block
\* separators, the line breaks of list and blockquote blocks and the
\* whitespace-only blocks put back, are the source text.
ReconstructionWithGaps ==
    \A language \in Lang :
        (Shown(language) /\ ~hasSegmenter) =>
            LET units == Units(language)
            IN  /\ \A k \in 1..(Len(units) - 1) :
                       units[k + 1].startIndex >= units[k].endIndex
                /\ Rebuild(fatwaText[language].value, units, 0,
                           Suppressed(language)) = fatwaText[language].value

\* C16 witness: the fallback rendered a text with a suppressed prefix, a
\* separator and two units next to each other.
PrefixAndSeparatorRebuilt ==
    \E language \in Lang :
        /\ Shown(language)
        /\ ~hasSegmenter
        /\ SuppressedPrefix(language) # {}
        /\ \E c \in 0..(Len(fatwaText[language].value) - 1) :
               InSeparator(fatwaText[language].value, c)
        /\ Units(language) # << >>

\* the segments highlighted in the two panels
Highlighted ==
    UNION {{<<l, k>> : k \in {j \in DOMAIN panels[l].segments : isHighlighted(l, j)}} :
             l \in Lang}

\* C15: a unit is highlighted iff it is rendered, word-like and holds the
\* charIndex of the Highlight State of its language; at most one unit is
\* highlighted over both panels.
HighlightResolution ==
    /\ Cardinality(Highlighted) <= 1
    /\ \A l \in Lang :
           \A k \in DOMAIN panels[l].segments :
               LET seg == panels[l].segments[k]
               IN  <<l, k>> \in Highlighted <=>
                       /\ highlight.lang = l
                       /\ seg.rendered
                       /\ seg.isWordLike
                       /\ seg.startIndex <= highlight.charIndex
                       /\ highlight.charIndex < seg.endIndex

\* C15 witness: charIndex 2 in "a a", the first character of the second word,
\* highlights that word and nothing else.
SecondWordHighlighted ==
    /\ Shown("english") /\ Shown("arabic")
    /\ fatwaText["english"].value = <<"a", " ", "a">>
    /\ highlight = [lang |-> "english", charIndex |-> 2]
    /\ Highlighted = {<<"english", 3>>}

\* both fields of the answer are non-empty strings
BothNonEmptyStrings(r) ==
    /\ r.englishFatwa.type = "string" /\ r.englishFatwa.value # << >>
    /\ r.arabicFatwa.type = "string" /\ r.arabicFatwa.value # << >>

\* C17: generateFatwa resolves only with two non-empty strings and rejects
\* with a message in every other case.
GenerateValidates ==
    /\ outcome.state = "resolved" => BothNonEmptyStrings(outcome)
    /\ (outcome.state # "pending" /\ ~BothNonEmptyStrings(response)) =>
           outcome.state = "rejected" /\ outcome.message # ""

\* -------------------------------------------------------------------------
\* Properties of the request lifecycle of App
\* -------------------------------------------------------------------------
\* C29: every submission of a non-empty prompt sets isLoading and clears
\* error and fatwa; when the request settles isLoading is false and exactly
\* one of fatwa and error is non-null, fatwa on success and error on failure;
\* no submission happens while isLoading.
RequestLifecycleNonEmpty ==
    /\ [][(last'.op = "submit" /\ prompt # << >>)
            => (isLoading' /\ error' = NoError /\ fatwa' = 0)]_vars
    /\ [][last'.op = "resolve"
            => (~isLoading' /\ fatwa' # 0 /\ error' = NoError)]_vars
    /\ [][last'.op = "reject"
            => (~isLoading' /\ fatwa' = 0 /\ error' # NoError)]_vars
    /\ [][last'.op = "submit" => ~isLoading]_vars

\* C29 (amended): every submission of a prompt that is not empty or only
\* whitespace sets isLoading and clears error and fatwa; when the request
\* settles isLoading is false and exactly one of fatwa and error is
\* non-null, fatwa on success and error on failure; no submission happens
\* while isLoading.
RequestLifecycle ==
    /\ [][(last'.op = "submit" /\ trim(prompt) # << >>)
            => (isLoading' /\ error' = NoError /\ fatwa' = 0)]_vars
    /\ [][last'.op = "resolve"
            => (~isLoading' /\ fatwa' # 0 /\ error' = NoError)]_vars
    /\ [][last'.op = "reject"
            => (~isLoading' /\ fatwa' = 0 /\ error' # NoError)]_vars
    /\ [][last'.op = "submit" => ~isLoading]_vars

\* C29 witness: the request submitted after a blank submission and after a
\* first fatwa has failed: the fatwa and the old error were cleared and the
\* failure is the error shown.
SecondRequestFailed ==
    /\ last.op = "reject"
    /\ generation = 1
    /\ fatwa = 0
    /\ ~isLoading
    /\ error \in RequestErrors

\* C30: an error message and a fatwa are never displayed at the same time.
ErrorExcludesFatwa == error # NoError => fatwa = 0

\* -------------------------------------------------------------------------
\* Properties of the block classification and of the prefixes
\* -------------------------------------------------------------------------
\* the lines of block b of a panel
LinesOf(language, b) ==
    {l \in DOMAIN panels[language].lines : panels[language].lines[l].block = b}

\* the length of the prefix the line's own pattern matches, 0 for no match
MatchedPrefix(language, l) ==
    LET line == panels[language].lines[l]
        m == prefixMatch(panels[language].blocks[line.block].type, line.text)
    IN  IF m >= 0 THEN m ELSE 0

\* C21: in a header, list or blockquote block no rendered unit contains a
\* character of the prefix matched on the line, with either segmenter, and
\* the offsets of all units are those of the source text.
MarkersNeverShown ==
    \A language \in Lang :
        Shown(language) =>
            /\ SegmentsExact(language)
            /\ \A l \in DOMAIN panels[language].lines :
                   \A c \in 0..(Len(fatwaText[language].value) - 1) :
                       LET line == panels[language].lines[l]
                       IN  (/\ line.start <= c
                            /\ c < line.start + MatchedPrefix(language, l))
                           => Containing(language, c) = {}

\* every line of the text starts with one of the markers * + - and a space
AllLinesMarked(text) ==
    LET lines == splitLines(text, 1, << >>)
    IN  \A k \in DOMAIN lines :
            /\ Len(lines[k]) >= 2
            /\ lines[k][1] \in {"*", "+", "-"}
            /\ lines[k][2] = " "

\* C22: a block every line of which starts with *, + or - and a space is an
\* unordered list, and the prefix suppressed on each line is the marker
\* matched on that line with the whitespace after it.
ListMarkers ==
    \A language \in Lang :
        Shown(language) =>
            \A b \in DOMAIN panels[language].blocks :
                AllLinesMarked(panels[language].blocks[b].text) =>
                    /\ panels[language].blocks[b].type = "ul"
                    /\ \A l \in LinesOf(language, b) :
                           LET line == panels[language].lines[l]
                           IN  prefixLen("ul", line.text)
                                   = 1 + runLength(line.text, 2, Whitespace)

\* C23: a block is a list only if every one of its lines matches the list
\* prefix pattern; a block with a line that does not match is no list.
ListNeedsAllLines ==
    \A language \in Lang :
        Shown(language) =>
            \A b \in DOMAIN panels[language].blocks :
                panels[language].blocks[b].type \in {"ul", "ol"} =>
                    \A l \in LinesOf(language, b) :
                        prefixMatch(panels[language].blocks[b].type,
                                    panels[language].lines[l].text) >= 0

\* C24: on every line of a list block the characters of the matched marker
\* are in no rendered unit and every other character of the line is in
\* exactly one rendered unit, also on a line the prefix pattern does not
\* match.
OnlyMarkersSuppressed ==
    \A language \in Lang :
        Shown(language) =>
            \A l \in DOMAIN panels[language].lines :
                LET line == panels[language].lines[l]
                IN  panels[language].blocks[line.block].type \in {"ul", "ol"} =>
                        \A c \in line.start..(line.start + Len(line.text) - 1) :
                            IF c < line.start + MatchedPrefix(language, l)
                            THEN Containing(language, c) = {}
                            ELSE Cardinality(Containing(language, c)) = 1

\* -------------------------------------------------------------------------
\* Properties of the fallback segmenter and of the inline formatter
\* -------------------------------------------------------------------------
\* C25: without Intl.Segmenter segmentText gives no segment for the empty
\* string, one non-word-like segment for a text of whitespace only, and in
\* general alternating maximal runs of whitespace and of non-whitespace that
\* cover the text from offset 0 to its length; a segment is word-like iff it
\* holds a character that is no whitespace.
FallbackSegmenter ==
    (segmented.called /\ ~hasSegmenter) =>
        LET text == segmented.text
            segs == segmented.segments
            from == segmented.globalOffset
        IN  /\ text = << >> => segs = << >>
            /\ (text # << >> /\ isBlank(text)) =>
                   Len(segs) = 1 /\ ~segs[1].isWordLike
            /\ Contiguous(segs, from, from + Len(text))
            /\ ConcatTexts(segs) = text
            /\ \A k \in DOMAIN segs :
                   /\ segs[k].text # << >>
                   /\ segs[k].endIndex - segs[k].startIndex = Len(segs[k].text)
                   /\ segs[k].isWordLike <=>
                          \E n \in DOMAIN segs[k].text : segs[k].text[n] \notin Whitespace
                   /\ \/ \A n \in DOMAIN segs[k].text : segs[k].text[n] \in Whitespace
                      \/ \A n \in DOMAIN segs[k].text : segs[k].text[n] \notin Whitespace
            /\ \A k \in 1..(Len(segs) - 1) :
                   segs[k].isWordLike # segs[k + 1].isWordLike

\* C25 witness: the fallback was called on a text of two whitespace
\* characters and returned one segment that is not word-like.
WhitespaceIsOneSegment ==
    /\ segmented.called
    /\ ~hasSegmenter
    /\ segmented.text = <<" ", "\n">>
    /\ Len(segmented.segments) = 1
    /\ ~segmented.segments[1].isWordLike

\* a run of n copies of the character ch
Run(ch, n) == [k \in 1..n |-> ch]

\* two equal delimiter characters with something between them
HasSpan(s) ==
    \E i, j \in DOMAIN s : j > i + 1 /\ s[i] \in {"*", "_"} /\ s[j] = s[i]

\* C26: a letter between two *** or ___ becomes bold and italic, between
\* two ** or __ bold, between two * or _ italic, the delimiters removed and
\* the inner text kept; a string whose asterisks and underscores form no
\* delimited span is returned unchanged.
InlineFormatter ==
    word.rendered =>
        /\ \A ch \in {"*", "_"} :
               /\ word.children = Run(ch, 3) \o <<"a">> \o Run(ch, 3)
                      => word.content = <<"<strong><em>", "a", "</em></strong>">>
               /\ word.children = Run(ch, 2) \o <<"a">> \o Run(ch, 2)
                      => word.content = <<"<strong>", "a", "</strong>">>
               /\ word.children = Run(ch, 1) \o <<"a">> \o Run(ch, 1)
                      => word.content = <<"<em>", "a", "</em>">>
        /\ ~HasSpan(word.children) => word.content = word.children

\* -------------------------------------------------------------------------
\* Properties of the playback controls
\* -------------------------------------------------------------------------
\* C27: every utterance carries the language tag of its channel and the
\* playback rate current when it was started, whatever the voices.
UtteranceConfigured ==
    /\ [](\A i \in DOMAIN utts : utts[i].tag = LangTag(utts[i].lang))
    /\ [][(last'.op = "readAloud" /\ last'.id # 0)
            => utts'[last'.id].rate = playbackRate]_vars

\* C28: the playback rate is a multiple of 0.25 from 0.5 to 2.0 and does
\* not change while the Highlight State is not None.
RateInRange ==
    /\ [](/\ playbackRate % RateStep = 0
          /\ MinRate <= playbackRate
          /\ playbackRate <= MaxRate)
    /\ [][highlight # None => playbackRate' = playbackRate]_vars

\* C28 witness: the rate was raised to 2.0 and the fatwa is being read at
\* that rate.
ReadAtTopRate ==
    /\ playbackRate = MaxRate
    /\ highlight # None
    /\ \E i \in ActiveOwn : utts[i].rate = MaxRate

====
